---- MODULE Spec2Model ----
(***************************************************************************)
(* A model of the memeooorr agent's action pipeline:                       *)
(*   - behaviour_classes/chain.py   (ActionPreparationBehaviour, ledger)   *)
(*   - behaviour_classes/twitter.py (EngageTwitterBehaviour, the parser)   *)
(*   - connections/mirror_db/connection.py (MirrorDBConnection)            *)
(* Python values are modelled as tagged records, so that a comparison of a *)
(* dict with a string, or of an int with a string, is FALSE as in Python.  *)
(***************************************************************************)
EXTENDS Integers, Sequences, FiniteSets, TLC

VARIABLES
    kv,        \* the key-value store: key -> [present, items]
    chain,     \* what the last ActionPreparationBehaviour.get_tx_hash did
    heart,     \* what the last executed store_heart did
    conn,      \* MirrorDBConnection: state, _response_envelopes, session
    tasks,     \* the dispatch tasks created by send, by task number
    task_to_request,  \* MirrorDBConnection.task_to_request
    received,  \* the envelopes handed out by receive
    cb_raised, \* the exceptions raised by done-callbacks, by task number
    tw,        \* what the last engagement round / engagement pass did
    ld,        \* what the last load of a ledger collection gave
    fb,        \* what the last CollectFeedbackBehaviour.get_feedback did
    inst       \* the process instances sharing the store, and their writes

mirrorVars == <<conn, tasks, task_to_request, received, cb_raised>>
agentVars == <<kv, chain, heart, tw, ld, fb, inst>>
vars == <<kv, chain, heart, conn, tasks, task_to_request, received, cb_raised,
          tw, ld, fb, inst>>

-----------------------------------------------------------------------------
(* Bounds of the model                                                     *)

MaxNonce == 2
MaxHearted == 4
MaxRequests == 2
MaxId == 1
MaxDecisions == 2
MaxRoundDecisions == 1
MaxLedger == 2
MaxTweets == 1
MaxFeedback == 2
MaxOverflow == 1
MaxTextLen == 3
MaxPosts == 2
MaxInstances == 2
MaxWrites == 3
MaxBalance == 4

-----------------------------------------------------------------------------
(* Program constants                                                       *)

SAFE_GAS == 0
ZERO_VALUE == 0
TX_HASH_LENGTH == 66
MAX_TWEET_CHARS == 280
FEEDBACK_LIMIT == 10

-----------------------------------------------------------------------------
(* The key-value store (collaborator of _read_kv / _write_kv)              *)

\* The sequences of at most n elements of S.
SeqsUpTo(S, n) == UNION {[1..k -> S] : k \in 0..n}

KvKeys == {"hearted_memes", "summoned_tokens", "tokens", "tweets",
           "interacted_tweet_ids"}

\* A key that was never written (the store answers None for it).
NoValue == [present |-> FALSE, items |-> <<>>]

EmptyStore == [k \in KvKeys |-> NoValue]

\* _read_kv(keys=(key,)): a map with the stored value, or None (ok = FALSE)
\* when the store reports a read failure.
read_kv(store, key, read_ok) ==
    IF read_ok THEN [ok |-> TRUE, value |-> store[key]]
               ELSE [ok |-> FALSE, value |-> NoValue]

\* json.dumps of a list of ints, strings and flat dicts, as it is stored.
json_dumps(items) == [present |-> TRUE, items |-> items]

\* `[] if db_data is None else json.loads(db_data[key] or "[]")`
load_list(db_data) ==
    IF ~db_data.ok THEN <<>>
    ELSE IF db_data.value.present THEN db_data.value.items ELSE <<>>

\* _write_kv({key: value}): the whole value is overwritten.
write_kv(store, key, value) == [store EXCEPT ![key] = value]

-----------------------------------------------------------------------------
(* chain.py: ChainBehaviour.store_heart                                    *)

\* The body of store_heart(token_nonce), run to completion.
store_heart(store, token_nonce, read_ok) ==
    LET db_data == read_kv(store, "hearted_memes", read_ok)
        hearted_memes == load_list(db_data)
    IN  write_kv(store, "hearted_memes",
                 json_dumps(Append(hearted_memes, token_nonce)))

\* `self.store_heart(x)` written without `yield from` (chain.py:332 and
\* chain.py:376): the call only builds a generator object, which is dropped;
\* the body of store_heart never runs and the store is left as it is.
store_heart_not_awaited(store, token_nonce) == store

Nonces == 0..MaxNonce

\* One execution of store_heart(n), driven to completion.
RunStoreHeart ==
    \E n \in Nonces, read_ok \in BOOLEAN :
        /\ Len(kv["hearted_memes"].items) < MaxHearted
        /\ kv' = store_heart(kv, n, read_ok)
        /\ heart' = [ran |-> TRUE, token_nonce |-> n, read_ok |-> read_ok,
                     before |-> kv["hearted_memes"].items]
        /\ UNCHANGED <<chain, tw, ld, fb, inst, mirrorVars>>

-----------------------------------------------------------------------------
(* chain.py: ActionPreparationBehaviour                                    *)

PyNone == [ty |-> "none"]
PyStr(s) == [ty |-> "str", s |-> s]

Actions == {"summon", "heart", "unleash", "collect", "purge"}

\* token_action["amount"]: an int or a numeric string; v is the number.
Amounts == {[ty |-> "int", v |-> 1], [ty |-> "str", v |-> 2]}

\* synchronized_data.token_action: a dict holding the fields of its action.
TokenActions ==
    {[ty |-> "dict", action |-> "summon", token_name |-> "Meme",
      token_ticker |-> "MEME", token_supply |-> s, amount |-> a] :
        s \in {1000}, a \in Amounts}
    \cup {[ty |-> "dict", action |-> "heart", token_nonce |-> n, amount |-> a] :
        n \in Nonces, a \in Amounts}
    \cup {[ty |-> "dict", action |-> "unleash", token_nonce |-> n] : n \in Nonces}
    \cup {[ty |-> "dict", action |-> act, token_address |-> addr] :
        act \in {"collect", "purge"}, addr \in {"0xA", "0xB"}}

\* contract_callable = f"build_{action}_tx"
contract_callable(action) == <<"build_", action, "_tx">>

\* build_kwargs with unleash dropped from the second test.
build_kwargs_no_unleash(token_action) ==
    LET action == token_action.action
    IN  IF action \in {"summon"}
        THEN [token_name |-> token_action.token_name,
              token_ticker |-> token_action.token_ticker,
              token_supply |-> token_action.token_supply]
        ELSE IF action \in {"heart"}
        THEN [meme_nonce |-> token_action.token_nonce]
        ELSE IF action \in {"collect", "purge"}
        THEN [meme_address |-> token_action.token_address]
        ELSE <<>>

\* kwargs as filled by lines 267-278.
build_kwargs(token_action) ==
    LET action == token_action.action
        k1 == IF action \in {"summon"}
              THEN [token_name |-> token_action.token_name,
                    token_ticker |-> token_action.token_ticker,
                    token_supply |-> token_action.token_supply]
              ELSE <<>>
        k2 == IF action \in {"heart", "unleash"}
              THEN [meme_nonce |-> token_action.token_nonce]
              ELSE <<>>
        k3 == IF action \in {"collect", "purge"}
              THEN [meme_address |-> token_action.token_address]
              ELSE <<>>
    IN  k1 @@ k2 @@ k3

\* Answers of the contract collaborator to GET_RAW_TRANSACTION.
RawResponses ==
    {[performative |-> "raw_transaction", has_data |-> TRUE, data |-> "calldata"],
     [performative |-> "raw_transaction", has_data |-> FALSE, data |-> ""],
     [performative |-> "error", has_data |-> FALSE, data |-> ""]}

\* Answers of the safe collaborator to get_raw_safe_transaction_hash: the
\* tx_hash is modelled by its length.
SafeResponses ==
    {[performative |-> "state", has_hash |-> TRUE, len |-> TX_HASH_LENGTH],
     [performative |-> "state", has_hash |-> TRUE, len |-> TX_HASH_LENGTH - 2],
     [performative |-> "state", has_hash |-> TRUE, len |-> TX_HASH_LENGTH + 2],
     [performative |-> "state", has_hash |-> TRUE, len |-> 0],
     [performative |-> "state", has_hash |-> FALSE, len |-> 0],
     [performative |-> "error", has_hash |-> FALSE, len |-> 0]}

\* Answers of the contract collaborator to get_token_data.
NonceResponses ==
    {[performative |-> "state", has_nonce |-> TRUE, token_nonce |-> n] : n \in Nonces}
    \cup {[performative |-> "state", has_nonce |-> FALSE, token_nonce |-> 0],
          [performative |-> "error", has_nonce |-> FALSE, token_nonce |-> 0]}

\* _build_safe_tx_hash without the test of the hash length.
build_safe_tx_hash_any_length(to_address, value, data, resp) ==
    IF resp.performative # "state" THEN PyNone
    ELSE IF ~resp.has_hash THEN PyNone
    ELSE [ty |-> "hash", safe_tx_hash_len |-> resp.len - 2, ether_value |-> value,
          safe_tx_gas |-> SAFE_GAS, to_address |-> to_address, data |-> data]

\* ChainBehaviour._build_safe_tx_hash
build_safe_tx_hash(to_address, value, data, resp) ==
    IF resp.performative # "state" THEN PyNone
    ELSE IF ~resp.has_hash \/ resp.len # TX_HASH_LENGTH THEN PyNone
    ELSE [ty |-> "hash", safe_tx_hash_len |-> resp.len - 2, ether_value |-> value,
          safe_tx_gas |-> SAFE_GAS, to_address |-> to_address, data |-> data]

\* ActionPreparationBehaviour.get_token_nonce: None or the event's nonce.
get_token_nonce(resp) ==
    IF resp.performative # "state" THEN [has |-> FALSE, n |-> 0]
    ELSE [has |-> resp.has_nonce, n |-> resp.token_nonce]

\* Python's `not token_nonce` for None or an int.
not_nonce(token_nonce) == ~token_nonce.has \/ token_nonce.n = 0

\* ActionPreparationBehaviour.post_action: the store it leaves.
post_action(store, token_action, nonce_resp, read_ok) ==
    LET token_nonce == get_token_nonce(nonce_resp)
        \* `if token_action == "summon"`: a dict compared with a string
        s1 == IF token_action = PyStr("summon")
              THEN LET db_data == read_kv(store, "tokens", read_ok)
                       tokens == load_list(db_data)
                       token_data == [token_name |-> token_action.token_name,
                                      token_ticker |-> token_action.token_ticker,
                                      total_supply |-> token_action.total_supply,
                                      token_nonce |-> token_nonce.n]
                   IN  write_kv(store, "summoned_tokens",
                                json_dumps(Append(tokens, token_data)))
              ELSE store
        \* `if token_action in ["summon", "heart"]`
        s2 == IF token_action \in {PyStr("summon"), PyStr("heart")}
              THEN store_heart_not_awaited(s1, token_nonce.n)
              ELSE s1
    IN  IF not_nonce(token_nonce) THEN store ELSE s2

\* The test of the contract response that looks at its kind only.
raw_rejected_kind_only(raw) == raw.performative # "raw_transaction"

\* Lines 293-308: the response is not RAW_TRANSACTION or has no data.
raw_rejected(raw) == raw.performative # "raw_transaction" \/ ~raw.has_data

\* The value of the transaction with heart left out of the paying actions.
tx_value_summon_only(token_action) ==
    IF token_action.action \notin {"summon"}
    THEN ZERO_VALUE ELSE token_action.amount.v

\* Lines 318-322: ZERO_VALUE, or int(token_action["amount"]).
tx_value(token_action) ==
    IF token_action.action \notin {"summon", "heart"}
    THEN ZERO_VALUE ELSE token_action.amount.v

\* ActionPreparationBehaviour.get_tx_hash: the value it returns, the calls it
\* makes to its collaborators and the store it leaves.
get_tx_hash(store, token_action, has_final_tx_hash, raw, safe, nonce_resp, read_ok) ==
    LET none == [calls |-> <<>>, safe_calls |-> <<>>, nonce_calls |-> 0,
                 ret |-> PyNone, store |-> store]
    IN
    IF has_final_tx_hash
    THEN [none EXCEPT !.nonce_calls = 1, !.ret = PyStr(""),
                      !.store = post_action(store, token_action, nonce_resp, read_ok)]
    ELSE IF token_action = PyNone THEN none
    ELSE
    LET action == token_action.action
        call == [callable |-> contract_callable(action),
                 kwargs |-> build_kwargs(token_action)]
        value == tx_value(token_action)
        safe_call == [to_address |-> "meme_factory", data |-> raw.data,
                      value |-> value]
        safe_tx_hash == build_safe_tx_hash("meme_factory", value, raw.data, safe)
        after == IF action = "heart"
                 THEN store_heart_not_awaited(store, token_action.token_nonce)
                 ELSE store
    IN
    IF raw_rejected(raw)
    THEN [none EXCEPT !.calls = <<call>>]
    ELSE [calls |-> <<call>>, safe_calls |-> <<safe_call>>, nonce_calls |-> 0,
          ret |-> safe_tx_hash, store |-> after]

\* One ActionPreparationRound: the behaviour runs get_tx_hash on the
\* synchronized data of the round.
ActionPreparation ==
    \E token_action \in TokenActions \cup {PyNone}, has_final \in BOOLEAN,
       raw \in RawResponses, safe \in SafeResponses,
       nonce_resp \in NonceResponses, read_ok \in BOOLEAN :
        /\ has_final => token_action # PyNone
        /\ \E r \in {get_tx_hash(kv, token_action, has_final, raw, safe,
                                 nonce_resp, read_ok)} :
               /\ kv' = r.store
               /\ chain' = [op |-> "get_tx_hash", token_action |-> token_action,
                            has_final |-> has_final,
                            token_nonce |-> get_token_nonce(nonce_resp),
                            \* post_action stopped at "Token nonce is none"
                            stopped |-> has_final
                                /\ not_nonce(get_token_nonce(nonce_resp)),
                            before |-> kv,
                            \* the answers to the calls that were made
                            raw |-> IF r.calls # <<>> THEN raw ELSE PyNone,
                            safe |-> IF r.safe_calls # <<>> THEN safe
                                     ELSE PyNone,
                            calls |-> r.calls, safe_calls |-> r.safe_calls,
                            nonce_calls |-> r.nonce_calls, ret |-> r.ret]
        /\ UNCHANGED <<heart, tw, ld, fb, inst, mirrorVars>>

-----------------------------------------------------------------------------
(* connection.py: MirrorDBConnection                                       *)

\* The request envelopes the skills send. `kind` tells how the dispatch of
\* the message goes in _get_response:
\*   "not_request"  the performative is not REQUEST
\*   "bad_json"     the payload is not JSON: json.loads raises
\*   "no_method"    the payload names no method: getattr(self, None, None) raises
\*   "unknown"      the method name is not an attribute of the connection
\*   "call"         the method exists and is called
Senders == {"skill_a", "skill_b"}
RequestKinds == {"not_request", "bad_json", "no_method", "unknown", "call"}
Requests ==
    {[sender |-> s, to |-> "mirror_db", kind |-> k] :
        s \in Senders, k \in RequestKinds}

\* prepare_error_message: a RESPONSE with error=True. `backend` tells
\* whether a backend method was called before the reply was made:
\* "not_called", "returned" or "raised".
prepare_error_message(request, error, backend) ==
    [kind |-> "message", performative |-> "response", error |-> TRUE,
     payload |-> error, backend |-> backend]

\* The dispatch that calls the backend without looking the method up.
get_response_unchecked_method(request, backend_ok, has_session) ==
    IF request.kind = "not_request"
    THEN prepare_error_message(request, "performative not supported",
                               "not_called")
    ELSE IF request.kind = "bad_json"
    THEN [kind |-> "exception", exc |-> "JSONDecodeError"]
    ELSE IF request.kind = "no_method"
    THEN [kind |-> "exception", exc |-> "TypeError"]
    ELSE IF backend_ok /\ has_session
    THEN [kind |-> "message", performative |-> "response", error |-> FALSE,
          payload |-> "response", backend |-> "returned"]
    ELSE prepare_error_message(request, "exception while calling backend",
                               "raised")

\* _get_response(srr_message, dialogue): the message the coroutine returns,
\* or the exception that leaves it. backend_ok says whether the awaited
\* backend method returned; has_session whether self.session is set (the
\* backend methods raise on a session that is None).
get_response(request, backend_ok, has_session) ==
    IF request.kind = "not_request"
    THEN prepare_error_message(request, "performative not supported",
                               "not_called")
    ELSE IF request.kind = "bad_json"
    THEN [kind |-> "exception", exc |-> "JSONDecodeError"]
    ELSE IF request.kind = "no_method"
    THEN [kind |-> "exception", exc |-> "TypeError"]
    ELSE IF request.kind = "unknown"
    THEN prepare_error_message(request, "method not available", "not_called")
    ELSE IF backend_ok /\ has_session
    THEN [kind |-> "message", performative |-> "response", error |-> FALSE,
          payload |-> "response", backend |-> "returned"]
    ELSE prepare_error_message(request, "exception while calling backend",
                               "raised")

NoTasks == <<>>

\* A task whose done-callback has run: nothing refers to it any more.
Retired == [status |-> "retired"]

TaskIds == DOMAIN tasks
InFlight == DOMAIN task_to_request

\* connect(): called by the multiplexer on a connection that is not connected.
Connect ==
    /\ conn.state = "disconnected"
    /\ conn' = [conn EXCEPT !.state = "connected", !.queue_set = TRUE,
                            !.queue = <<>>, !.session = TRUE,
                            !.last = "other"]
    /\ UNCHANGED <<tasks, task_to_request, received, cb_raised, agentVars>>

\* send(envelope): a task is created for _get_response, the done-callback is
\* attached and the task is entered in task_to_request.
Send ==
    \E request \in Requests :
        /\ Len(tasks) < MaxRequests
        /\ LET t == Len(tasks) + 1
           IN  /\ tasks' = Append(tasks, [request |-> request, status |-> "running",
                                          result |-> [kind |-> "pending"],
                                          sent_connected |->
                                              conn.state = "connected"])
               /\ task_to_request' = task_to_request @@ (t :> request)
        /\ conn' = [conn EXCEPT !.last = "other"]
        /\ UNCHANGED <<received, cb_raised, agentVars>>

\* The coroutine of task t ends: with the value or exception of
\* _get_response, or with CancelledError when cancel() was requested.
TaskComplete ==
    \E t \in TaskIds, backend_ok \in BOOLEAN :
        /\ tasks[t].status \in {"running", "cancel_requested"}
        /\ tasks' = [tasks EXCEPT ![t] =
              [tasks[t] EXCEPT
                  !.status = "done",
                  !.result = IF tasks[t].status = "cancel_requested"
                             THEN [kind |-> "cancelled"]
                             ELSE get_response(tasks[t].request, backend_ok,
                                               conn.session)]]
        /\ conn' = [conn EXCEPT !.last = "other"]
        /\ UNCHANGED <<task_to_request, received, cb_raised, agentVars>>

\* _handle_done_task(task): the callback the loop runs for a finished task.
\* The entry is popped first; task.result() re-raises the task's exception or
\* CancelledError; the response_envelopes property raises ValueError when
\* the queue is None.
handle_done_task(t) ==
    LET request == task_to_request[t]
        popped == [x \in InFlight \ {t} |-> task_to_request[x]]
        result == tasks[t].result
        envelope == [to |-> request.sender, sender |-> request.to,
                     message |-> result, task |-> t]
    IN  IF result.kind = "exception"
        THEN [map |-> popped, queue |-> conn.queue, raised |-> result.exc]
        ELSE IF result.kind = "cancelled"
        THEN [map |-> popped, queue |-> conn.queue, raised |-> "CancelledError"]
        ELSE IF ~conn.queue_set
        THEN [map |-> popped, queue |-> conn.queue, raised |-> "ValueError"]
        ELSE [map |-> popped, queue |-> Append(conn.queue, envelope),
              raised |-> "none"]

DoneCallback ==
    \E t \in InFlight :
        /\ tasks[t].status = "done"
        /\ LET r == handle_done_task(t)
           IN  /\ task_to_request' = r.map
               /\ conn' = [conn EXCEPT !.queue = r.queue, !.last = "other"]
               /\ cb_raised' = IF r.raised = "none" THEN cb_raised
                               ELSE cb_raised @@ (t :> r.raised)
        /\ tasks' = [tasks EXCEPT ![t] = Retired]
        /\ UNCHANGED <<received, agentVars>>

\* A disconnect that leaves the tasks running.
cancel_none(ts, map) == ts

\* task.cancel() for every task of task_to_request that is not cancelled: a
\* running task is marked for cancellation, a finished one is left as it is.
cancel_all(ts, map) ==
    [t \in DOMAIN ts |->
        IF t \in DOMAIN map /\ ts[t].status = "running"
        THEN [ts[t] EXCEPT !.status = "cancel_requested"]
        ELSE ts[t]]

\* disconnect(), up to `await self.session.close()`.
DisconnectBegin ==
    /\ conn.pc = "idle"
    /\ IF conn.state = "disconnected"
       THEN /\ conn' = [conn EXCEPT !.last = "disconnect_noop"]
            /\ UNCHANGED tasks
       ELSE /\ tasks' = cancel_all(tasks, task_to_request)
            /\ conn' = IF conn.session
                       THEN [conn EXCEPT !.state = "disconnecting",
                                         !.queue_set = FALSE, !.queue = <<>>,
                                         !.pc = "closing", !.last = "disconnect"]
                       ELSE [conn EXCEPT !.state = "disconnected",
                                         !.queue_set = FALSE, !.queue = <<>>,
                                         !.last = "disconnect"]
    /\ UNCHANGED <<task_to_request, received, cb_raised, agentVars>>

\* disconnect(), after `await self.session.close()`.
DisconnectEnd ==
    /\ conn.pc = "closing"
    /\ conn' = [conn EXCEPT !.session = FALSE, !.state = "disconnected",
                            !.pc = "idle", !.last = "other"]
    /\ UNCHANGED <<tasks, task_to_request, received, cb_raised, agentVars>>

\* receive(): the next response envelope of the queue.
Receive ==
    /\ conn.queue_set
    /\ conn.queue # <<>>
    /\ received' = Append(received, Head(conn.queue))
    /\ conn' = [conn EXCEPT !.queue = Tail(@), !.last = "other"]
    /\ UNCHANGED <<tasks, task_to_request, cb_raised, agentVars>>

-----------------------------------------------------------------------------
(* twitter.py: values of the engagement engine                             *)

\* A tweet id is an int or a numeric string; the number it denotes is v.
PyInt(n) == [ty |-> "int", v |-> n]
NumStr(n) == [ty |-> "str", v |-> n]
IdTypes == {"int", "str"}
TweetNumbers == 1..MaxId
TweetIds == {[ty |-> t, v |-> n] : t \in IdTypes, n \in TweetNumbers}

\* int(x) and str(x) of Python, for an id or None.
py_int(x) == PyInt(x.v)
py_str(x) ==
    IF x.ty = "none" THEN PyStr("None")
    ELSE IF x.ty = "int" THEN NumStr(x.v)
    ELSE x

\* The membership test that holds for a value occurring exactly once.
py_in_once(x, xs) == Cardinality({i \in DOMAIN xs : xs[i] = x}) = 1

\* x in xs for a Python list: equality of values, 111 == "111" is False.
py_in(x, xs) == \E i \in DOMAIN xs : xs[i] = x

\* A text, known by its weighted length.
Text(len) == [ty |-> "text", len |-> len]
TextLengths == {MAX_TWEET_CHARS, MAX_TWEET_CHARS + 1}

\* The length test that refuses a text of exactly the maximum.
is_tweet_valid_strict(tweet) == tweet.len < MAX_TWEET_CHARS

\* is_tweet_valid(tweet)
is_tweet_valid(tweet) == tweet.len <= MAX_TWEET_CHARS

\* A decoded JSON object of the decision list: the value of each key the
\* loop reads, None for a key that is absent.
EmptyObject == [tweet_id |-> PyNone, action |-> PyNone, text |-> PyNone]
TargetedActions == {"like", "follow", "retweet", "reply", "quote"}
Decisions ==
    {[tweet_id |-> i, action |-> PyStr(a), text |-> PyNone] :
        i \in TweetIds, a \in {"none", "like", "follow", "retweet"}}
    \cup {[tweet_id |-> PyNone, action |-> PyStr("tweet"), text |-> Text(l)] :
        l \in TextLengths}
    \cup {[tweet_id |-> i, action |-> PyStr(a), text |-> Text(l)] :
        i \in TweetIds, a \in {"reply", "quote"}, l \in TextLengths}

\* Decision lists of at most n decisions.
RECURSIVE DecisionLists(_)
DecisionLists(n) ==
    IF n = 0 THEN {<<>>}
    ELSE DecisionLists(n - 1)
         \cup {Append(ds, d) : ds \in {x \in DecisionLists(n - 1) :
                                          Len(x) = n - 1},
                               d \in Decisions}

-----------------------------------------------------------------------------
(* twitter.py: parse_json_from_llm                                         *)

\* The LLM text as a sequence of lexical pieces: the word json, a code
\* fence, the one-character pieces ( ) [ ] , newline and space, a JSON
\* object {...} (the only piece holding braces), and prose without braces.
Tok(k) == [tok |-> k]
Obj(d) == [tok |-> "obj", d |-> d]
IsObj(t) == t.tok = "obj"
IsWs(t) == t.tok \in {"nl", "sp"}
SingleChar(t) == t.tok \in {"(", ")", "[", "]", ",", "nl", "sp"}

\* Index of the last piece of s satisfying the test, 0 when there is none.
LastObj(s) ==
    IF \E i \in DOMAIN s : IsObj(s[i])
    THEN CHOOSE i \in DOMAIN s :
            IsObj(s[i]) /\ \A j \in DOMAIN s : IsObj(s[j]) => j <= i
    ELSE 0
LastFence(s) ==
    IF \E i \in DOMAIN s : s[i].tok = "fence"
    THEN CHOOSE i \in DOMAIN s :
            s[i].tok = "fence"
            /\ \A j \in DOMAIN s : s[j].tok = "fence" => j <= i
    ELSE 0

\* The least element of a non-empty set of positions.
Leftmost(S) == CHOOSE i \in S : \A j \in S : i <= j

NoMatch == [matched |-> FALSE, capture |-> <<>>]
Match(s, from, to) == [matched |-> TRUE, capture |-> SubSeq(s, from, to)]

\* r"json.?({.*})" with DOTALL: json, at most one character, then from a
\* `{` to the last `}` of the text.
regex_json_any(s) ==
    LET start(i) ==
            IF i + 2 <= Len(s) /\ SingleChar(s[i + 1]) /\ IsObj(s[i + 2])
            THEN i + 2
            ELSE IF i + 1 <= Len(s) /\ IsObj(s[i + 1]) THEN i + 1
            ELSE 0
        hits == {i \in DOMAIN s : s[i].tok = "json" /\ start(i) # 0}
    IN  IF hits = {} THEN NoMatch
        ELSE Match(s, start(Leftmost(hits)), LastObj(s))

\* r"json({.*})": json directly followed by `{`, to the last `}`.
regex_json_brace(s) ==
    LET hits == {i \in DOMAIN s :
                    s[i].tok = "json" /\ i + 1 <= Len(s) /\ IsObj(s[i + 1])}
    IN  IF hits = {} THEN NoMatch
        ELSE Match(s, Leftmost(hits) + 1, LastObj(s))

\* r"```json(.*)```": from the first fence followed by json to the last
\* fence of the text.
regex_fenced(s) ==
    LET hits == {i \in DOMAIN s :
                    /\ s[i].tok = "fence"
                    /\ i + 1 <= Len(s)
                    /\ s[i + 1].tok = "json"
                    /\ LastFence(s) > i + 1}
    IN  IF hits = {} THEN NoMatch
        ELSE Match(s, Leftmost(hits) + 2, LastFence(s) - 1)

JSON_RESPONSE_REGEXES == <<"json_any", "json_brace", "fenced">>
re_search(regex, s) ==
    IF regex = "json_any" THEN regex_json_any(s)
    ELSE IF regex = "json_brace" THEN regex_json_brace(s)
    ELSE regex_fenced(s)

\* json.loads(capture): one object, or an array of objects separated by
\* commas, with whitespace allowed around every piece; anything else raises
\* JSONDecodeError (ok = FALSE).
DecodeError == [ok |-> FALSE, kind |-> "none", items |-> <<>>]
json_loads(capture) ==
    LET body == SelectSeq(capture, LAMBDA t : ~IsWs(t))
        n == Len(body)
        inner == SubSeq(body, 2, n - 1)
        m == Len(inner)
    IN  IF n = 1 /\ IsObj(body[1])
        THEN [ok |-> TRUE, kind |-> "dict", items |-> <<body[1].d>>]
        ELSE IF n >= 2 /\ body[1].tok = "[" /\ body[n].tok = "]"
        THEN IF m = 0
             THEN [ok |-> TRUE, kind |-> "list", items |-> <<>>]
             ELSE IF /\ m % 2 = 1
                     /\ \A i \in 1..m :
                           IF i % 2 = 1 THEN IsObj(inner[i])
                                        ELSE inner[i].tok = ","
             THEN [ok |-> TRUE, kind |-> "list",
                   items |-> [i \in 1..((m + 1) \div 2) |-> inner[2 * i - 1].d]]
             ELSE DecodeError
        ELSE DecodeError

\* The parser that gives up at the first pattern whose capture does not
\* decode.
RECURSIVE parse_from_first_match(_, _)
parse_from_first_match(k, s) ==
    IF k > Len(JSON_RESPONSE_REGEXES) THEN [kind |-> "none", items |-> <<>>]
    ELSE LET match == re_search(JSON_RESPONSE_REGEXES[k], s)
             loaded == json_loads(match.capture)
         IN  IF ~match.matched THEN parse_from_first_match(k + 1, s)
             ELSE IF loaded.ok
             THEN [kind |-> loaded.kind, items |-> loaded.items]
             ELSE [kind |-> "none", items |-> <<>>]

\* parse_json_from_llm(response): the first pattern, in the listed order,
\* that matches and whose capture decodes; None (kind "none") otherwise.
RECURSIVE parse_from(_, _)
parse_from(k, s) ==
    IF k > Len(JSON_RESPONSE_REGEXES) THEN [kind |-> "none", items |-> <<>>]
    ELSE LET match == re_search(JSON_RESPONSE_REGEXES[k], s)
             loaded == json_loads(match.capture)
         IN  IF match.matched /\ loaded.ok
             THEN [kind |-> loaded.kind, items |-> loaded.items]
             ELSE parse_from(k + 1, s)
parse_json_from_llm(response) == parse_from(1, response)

\* `not json_response`: None, an empty list and an empty dict are falsy.
is_falsy(json_response) ==
    \/ json_response.kind = "none"
    \/ json_response.kind = "list" /\ json_response.items = <<>>
    \/ json_response.kind = "dict" /\ json_response.items = <<EmptyObject>>

\* The texts the LLM collaborator may return for a decision list ds.
RECURSIVE join_objects(_)
join_objects(ds) ==
    IF ds = <<>> THEN <<>>
    ELSE IF Len(ds) = 1 THEN <<Obj(ds[1])>>
    ELSE <<Obj(ds[1]), Tok(",")>> \o join_objects(Tail(ds))
array_text(ds) == <<Tok("[")>> \o join_objects(ds) \o <<Tok("]")>>
\*   json[{...},{...}]
marked_array(ds) == <<Tok("json")>> \o array_text(ds)
\*   ```json NL [{...},{...}] NL ```
fenced_array(ds) ==
    <<Tok("fence"), Tok("json"), Tok("nl")>> \o array_text(ds)
        \o <<Tok("nl"), Tok("fence")>>
\*   json{...}   json({...})   ```json NL {...} NL ```
marked_object(d) == <<Tok("json"), Obj(d)>>
wrapped_object(d) == <<Tok("json"), Tok("("), Obj(d), Tok(")")>>
fenced_object(d) ==
    <<Tok("fence"), Tok("json"), Tok("nl"), Obj(d), Tok("nl"), Tok("fence")>>

ObjectSamples ==
    {EmptyObject} \cup {d \in Decisions : d.action = PyStr("like")}
LlmText(toks) == [ty |-> "str", toks |-> toks]
LlmResponses(n) ==
    {PyNone, LlmText(<<Tok("prose")>>)}
    \cup {LlmText(marked_array(ds)) : ds \in DecisionLists(n)}
    \cup {LlmText(fenced_array(ds)) : ds \in DecisionLists(n)}
    \cup {LlmText(array_text(ds)) : ds \in DecisionLists(1)}
    \cup {LlmText(marked_object(d)) : d \in ObjectSamples}
    \cup {LlmText(wrapped_object(d)) : d \in ObjectSamples}
    \cup {LlmText(fenced_object(d)) : d \in ObjectSamples}

\* The responses drawn in one pass and in one round.
PassResponses == LlmResponses(MaxDecisions)
RoundResponses == LlmResponses(MaxRoundDecisions)

\* The texts given to parse_json_from_llm on its own: every text of at most
\* MaxTextLen pieces, the three marked forms of an object, and fenced
\* arrays with and without a newline after the marker.
ParseObjects == {[a |-> 1], [b |-> 2]}
ParsePieces ==
    {Tok(k) : k \in {"json", "fence", "(", ")", "[", "]", ",", "nl", "sp",
                     "prose"}}
    \cup {Obj(d) : d \in ParseObjects}
tight_fenced_array(ds) ==
    <<Tok("fence"), Tok("json")>> \o array_text(ds) \o <<Tok("fence")>>
ParseTexts ==
    SeqsUpTo(ParsePieces, MaxTextLen)
    \cup {marked_object(d) : d \in ParseObjects}
    \cup {wrapped_object(d) : d \in ParseObjects}
    \cup {fenced_object(d) : d \in ParseObjects}
    \cup {fenced_array(ds) : ds \in SeqsUpTo(ParseObjects, 2)}
    \cup {tight_fenced_array(ds) : ds \in SeqsUpTo(ParseObjects, 2)}
    \cup {fenced_array(ds) \o marked_object(d) :
            ds \in SeqsUpTo(ParseObjects, 1), d \in ParseObjects}

\* parse_json_from_llm applied to one text.
ParseLlm ==
    /\ tw.op = "init"
    /\ \E response \in ParseTexts :
        /\ tw' = [op |-> "parse", response |-> response,
                  json |-> parse_json_from_llm(response)]
        /\ UNCHANGED <<kv, chain, heart, ld, fb, inst, mirrorVars>>

-----------------------------------------------------------------------------
(* twitter.py: BaseTweetBehaviour and EngageTwitterBehaviour               *)

\* What the social collaborator (_call_twikit) answers to one call:
\*   "ok"    post ids / {"success": True}
\*   "fail"  no post id / {"success": False}
\*   "none"  None
ApiResults == {"ok", "fail", "none"}

\* get_tweets_from_db(): the persisted tweets log, empty when never written.
get_tweets_from_db(store) == load_list(read_kv(store, "tweets", TRUE))

\* store_tweet(tweet)
store_tweet(store, tweet) ==
    write_kv(store, "tweets",
             json_dumps(Append(get_tweets_from_db(store), tweet)))

Call(op, id) == [op |-> op, id |-> id]

\* The running state of a pass: the collaborator calls made, the ids
\* collected, the store, the exception that left the pass ("none"), and
\* what the last post_tweet returned.
Pass(store) ==
    [calls |-> <<>>, new_ids |-> <<>>, store |-> store, raised |-> "none",
     latest_tweet |-> PyNone]

\* The post that writes the tweets log whatever its store argument.
post_tweet_always_stores(acc, text, store, result) ==
    LET called == [acc EXCEPT !.calls = Append(@, Call("post", PyNone))]
        latest_tweet == [tweet_id |-> PyStr("posted"), text |-> text,
                         timestamp |-> "now"]
    IN  IF result # "ok" THEN [called EXCEPT !.latest_tweet = PyNone]
        ELSE [called EXCEPT !.latest_tweet = latest_tweet,
                            !.store = store_tweet(@, latest_tweet)]

\* post_tweet(tweet=[text], store): None when the collaborator returns no
\* post id; the new record otherwise, written to the log when store is set.
post_tweet(acc, text, store, result) ==
    LET called == [acc EXCEPT !.calls = Append(@, Call("post", PyNone))]
        latest_tweet == [tweet_id |-> PyStr("posted"), text |-> text,
                         timestamp |-> "now"]
    IN  IF result # "ok" THEN [called EXCEPT !.latest_tweet = PyNone]
        ELSE IF store
        THEN [called EXCEPT !.latest_tweet = latest_tweet,
                            !.store = store_tweet(@, latest_tweet)]
        ELSE [called EXCEPT !.latest_tweet = latest_tweet]

\* The call that collects the id whatever the collaborator reports.
success_call_always_appends(acc, op, tweet_id, result) ==
    LET called == [acc EXCEPT !.calls = Append(@, Call(op, tweet_id))]
    IN  IF result = "none" THEN [called EXCEPT !.raised = "TypeError"]
        ELSE [called EXCEPT !.new_ids = Append(@, tweet_id)]

\* like_tweet / retweet / follow_user followed by the append on success:
\* response["success"] raises TypeError when the response is None.
success_call(acc, op, tweet_id, result) ==
    LET called == [acc EXCEPT !.calls = Append(@, Call(op, tweet_id))]
    IN  IF result = "none" THEN [called EXCEPT !.raised = "TypeError"]
        ELSE IF result = "ok"
        THEN [called EXCEPT !.new_ids = Append(@, tweet_id)]
        ELSE called

\* respond_tweet(tweet_id, text, quote) followed by the append on success:
\* `tweet_ids is not None and tweet_ids`.
respond_tweet(acc, op, tweet_id, result) ==
    LET called == [acc EXCEPT !.calls = Append(@, Call(op, tweet_id))]
    IN  IF result = "ok"
        THEN [called EXCEPT !.new_ids = Append(@, tweet_id)]
        ELSE called

\* The skip test that exempts like, as tweet is, from the pending check.
not_pending_like_exempt(action, tweet_id, pending_tweets) ==
    /\ action \notin {PyStr("tweet"), PyStr("like")}
    /\ py_str(tweet_id) \notin pending_tweets

\* The skip test that drops the pending-tweet check.
not_pending_unchecked(action, tweet_id, pending_tweets) == FALSE

\* `action != "tweet" and str(tweet_id) not in pending_tweets.keys()`
not_pending(action, tweet_id, pending_tweets) ==
    action # PyStr("tweet") /\ py_str(tweet_id) \notin pending_tweets

\* One iteration of `for interaction in json_response`.
interaction_step(acc, interaction, pending_tweets, result) ==
    LET tweet_id == interaction.tweet_id
        action == interaction.action
        text == interaction.text
    IN  IF action = PyStr("none") THEN acc
        ELSE IF not_pending(action, tweet_id, pending_tweets) THEN acc
        ELSE IF action = PyStr("tweet") THEN post_tweet(acc, text, TRUE, result)
        ELSE IF action = PyStr("like")
        THEN success_call(acc, "like", tweet_id, result)
        ELSE IF action = PyStr("follow")
        THEN success_call(acc, "follow", tweet_id, result)
        ELSE IF action = PyStr("retweet")
        THEN success_call(acc, "retweet", tweet_id, result)
        ELSE IF ~is_tweet_valid(text) THEN acc
        ELSE IF action = PyStr("reply")
        THEN respond_tweet(acc, "reply", tweet_id, result)
        ELSE IF action = PyStr("quote")
        THEN respond_tweet(acc, "quote", tweet_id, result)
        ELSE acc

\* The loop over the decision list, from decision k on; an exception ends it.
RECURSIVE interaction_loop(_, _, _, _, _)
interaction_loop(acc, items, k, pending_tweets, results) ==
    IF k > Len(items) \/ acc.raised # "none" THEN acc
    ELSE interaction_loop(
             interaction_step(acc, items[k], pending_tweets, results[k]),
             items, k + 1, pending_tweets, results)

\* interact_twitter(pending_tweets): the event and the new ids returned, or
\* the exception raised; pending_tweets is given by its set of keys.
interact_twitter(store, pending_tweets, llm_response, results) ==
    LET start == Pass(store)
        failed == [event |-> "error", new_ids |-> <<>>, calls |-> <<>>,
                   store |-> store, raised |-> "none"]
        json_response == parse_json_from_llm(llm_response.toks)
        done == interaction_loop(start, json_response.items, 1,
                                 pending_tweets, results)
    IN  IF llm_response = PyNone THEN failed
        ELSE IF is_falsy(json_response) THEN failed
        ELSE IF json_response.kind = "dict"
        \* iterating a dict yields its keys: str has no attribute get
        THEN [failed EXCEPT !.event = "raised", !.raised = "AttributeError"]
        ELSE IF done.raised # "none"
        THEN [event |-> "raised", new_ids |-> done.new_ids,
              calls |-> done.calls, store |-> done.store,
              raised |-> done.raised]
        ELSE [event |-> "done", new_ids |-> done.new_ids,
              calls |-> done.calls, store |-> done.store,
              raised |-> "none"]

\* The keys of pending_tweets: the latest tweet id of every handle of the
\* feed, as the collaborator gives it, unless int(id) is in the loaded list.
pending_keys(feed, id_type, interacted_tweet_ids) ==
    {id \in {[ty |-> id_type, v |-> n] : n \in feed} :
        ~py_in(py_int(id), interacted_tweet_ids)}

\* A round that writes the ledger whatever its event.
persists_always(event) == TRUE

\* `if event == Event.DONE.value`
persists(event) == event = "done"

\* EngageTwitterBehaviour.get_event()
get_event(store, skip_engagement, feed, id_type, read_ok, llm_response, results) ==
    LET db_data == read_kv(store, "interacted_tweet_ids", read_ok)
        interacted_tweet_ids == load_list(db_data)
        pending_tweets == pending_keys(feed, id_type, interacted_tweet_ids)
        r == interact_twitter(store, pending_tweets, llm_response, results)
        written == write_kv(r.store, "interacted_tweet_ids",
                            json_dumps(interacted_tweet_ids \o r.new_ids))
    IN  IF skip_engagement
        THEN [event |-> "done", calls |-> <<>>, new_ids |-> <<>>,
              pending |-> {}, store |-> store]
        ELSE [event |-> r.event, calls |-> r.calls, new_ids |-> r.new_ids,
              pending |-> pending_tweets,
              store |-> IF persists(r.event) THEN written ELSE r.store]

\* One engagement pass on a pending-tweets map, observed once.
InteractTwitter ==
    /\ tw.op = "init"
    /\ \E id_type \in IdTypes, feed \in SUBSET TweetNumbers,
          llm_response \in PassResponses,
          results \in [1..MaxDecisions -> ApiResults] :
        /\ \E pending_tweets \in {pending_keys(feed, id_type, <<>>)} :
           \E r \in {interact_twitter(kv, pending_tweets, llm_response,
                                      results)} :
               /\ tw' = [op |-> "interact_twitter",
                         pending |-> pending_tweets,
                         llm_response |-> llm_response,
                         results |-> results,
                         event |-> r.event, new_ids |-> r.new_ids,
                         calls |-> r.calls, raised |-> r.raised]
               /\ kv' = r.store
    /\ UNCHANGED <<chain, heart, ld, fb, inst, mirrorVars>>

\* One engagement round of an agent whose skip_engagement is off.
EngageTwitter ==
    \E id_type \in IdTypes, feed \in SUBSET TweetNumbers,
       read_ok \in BOOLEAN,
       llm_response \in RoundResponses,
       results \in [1..MaxRoundDecisions -> ApiResults] :
        \E r \in {get_event(kv, FALSE, feed, id_type, read_ok, llm_response,
                            results)} :
            /\ Len(r.store["interacted_tweet_ids"].items) <= MaxLedger
            /\ Len(r.store["tweets"].items) <= MaxTweets
            /\ tw' = [op |-> "get_event", skipped |-> FALSE,
                      read_ok |-> read_ok, event |-> r.event, calls |-> r.calls,
                      new_ids |-> r.new_ids, pending |-> r.pending,
                      before |-> kv["interacted_tweet_ids"]]
            /\ kv' = r.store
            /\ UNCHANGED <<chain, heart, ld, fb, inst, mirrorVars>>

\* One engagement round of an agent whose skip_engagement is on.
EngageSkipped ==
    \E r \in {get_event(kv, TRUE, {}, "int", TRUE, PyNone,
                        [i \in 1..MaxRoundDecisions |-> "ok"])} :
        /\ tw' = [op |-> "get_event", skipped |-> TRUE,
                  read_ok |-> TRUE, event |-> r.event, calls |-> r.calls,
                  new_ids |-> r.new_ids, pending |-> r.pending,
                  before |-> kv["interacted_tweet_ids"]]
        /\ kv' = r.store
        /\ UNCHANGED <<chain, heart, ld, fb, inst, mirrorVars>>

-----------------------------------------------------------------------------
(* chain.py:120-127 and twitter.py:295-302: loading a ledger collection    *)

\* The string the store holds under a key, as the store may answer it: no
\* value (None), the empty string, the JSON text of a list, or a text that
\* is not JSON.
StoredStrings(lists) ==
    {[kind |-> "missing", items |-> <<>>], [kind |-> "empty", items |-> <<>>],
     [kind |-> "garbled", items |-> <<>>]}
    \cup {[kind |-> "json", items |-> l] : l \in lists}

\* The answers of _read_kv(keys=(key,)): None, or a map holding the string.
ReadAnswers(lists) ==
    {[ok |-> FALSE, value |-> [kind |-> "missing", items |-> <<>>]]}
    \cup {[ok |-> TRUE, value |-> v] : v \in StoredStrings(lists)}

\* The lists that may be stored under each ledger key.
LedgerLists(key) ==
    IF key = "hearted_memes" THEN SeqsUpTo(Nonces, MaxHearted)
    ELSE SeqsUpTo(TweetIds, MaxLedger)

\* `[] if db_data is None else json.loads(db_data[key] or "[]")`: the list
\* loaded, or the exception json.loads raises.
load_ledger(db_data) ==
    IF ~db_data.ok THEN [raised |-> "none", list |-> <<>>]
    ELSE IF db_data.value.kind \in {"missing", "empty"}
    THEN [raised |-> "none", list |-> <<>>]
    ELSE IF db_data.value.kind = "json"
    THEN [raised |-> "none", list |-> db_data.value.items]
    ELSE [raised |-> "JSONDecodeError", list |-> <<>>]

\* The load step of store_heart and of EngageTwitterBehaviour.get_event, on
\* every answer of the store.
LoadLedger ==
    \E key \in {"hearted_memes", "interacted_tweet_ids"} :
        \E db_data \in ReadAnswers(LedgerLists(key)) :
            /\ ld' = [op |-> "load", key |-> key, db_data |-> db_data,
                      raised |-> load_ledger(db_data).raised,
                      list |-> load_ledger(db_data).list]
            /\ UNCHANGED <<kv, chain, heart, tw, fb, inst, mirrorVars>>

\* The dedup filter of get_event (twitter.py:304-325) on a ledger that holds
\* x once more, and on the same ledger holding x twice more.
FilterPending ==
    /\ ld.op = "init"
    /\ \E ledger \in SeqsUpTo(TweetIds, MaxLedger), x \in TweetIds,
          feed \in SUBSET TweetNumbers, id_type \in IdTypes :
           ld' = [op |-> "filter", ledger |-> ledger, x |-> x, feed |-> feed,
                  id_type |-> id_type,
                  before |-> pending_keys(feed, id_type, ledger),
                  once |-> pending_keys(feed, id_type, Append(ledger, x)),
                  twice |-> pending_keys(feed, id_type,
                                         Append(Append(ledger, x), x))]
    /\ UNCHANGED <<kv, chain, heart, tw, fb, inst, mirrorVars>>

-----------------------------------------------------------------------------
(* CollectFeedbackBehaviour.get_feedback (twitter.py)                       *)

\* A counter key that the record does not hold.
Absent == [ty |-> "absent"]

\* The values of view_count in a reply record: absent, null, a number, a
\* numeric string, the empty string, a string that is not a number.
CounterValues ==
    {Absent, PyNone, PyInt(0), PyInt(1), PyInt(2), NumStr(1), PyStr(""),
     PyStr("many")}

\* The values of retweet_count and quote_count.
ShareValues == {Absent, PyInt(1), PyStr("many")}

Reply(views, retweets, quotes) ==
    [view_count |-> views, retweet_count |-> retweets,
     quote_count |-> quotes]

FeedbackRecords ==
    {Reply(v, r, q) : v \in CounterValues, r \in ShareValues,
                      q \in ShareValues}

\* The records of the long answers: one view, one quote.
LongRecords ==
    {Reply(PyInt(1), Absent, Absent), Reply(Absent, Absent, PyInt(1))}

PyList(items) == [ty |-> "list", items |-> items]

\* What the search call answers: None, or a list of reply records (short
\* lists of every record, and lists around the truncation limit).
SearchAnswers ==
    {PyNone}
    \cup {PyList(l) : l \in SeqsUpTo(FeedbackRecords, MaxFeedback)}
    \cup {PyList(l) :
            l \in UNION {[1..n -> LongRecords] :
                           n \in FEEDBACK_LIMIT..(FEEDBACK_LIMIT + MaxOverflow)}}

\* Python truth value of a counter value.
counter_is_falsy(c) == c \in {PyNone, PyInt(0), PyStr("")}

\* int(x): the number of an int or of a numeric string, ValueError for a
\* string that is not a number.
int_call(x) ==
    IF "v" \in DOMAIN x THEN [raised |-> "none", v |-> x.v]
    ELSE [raised |-> "ValueError", v |-> 0]

\* `int(t.get(key, 0) or 0)`
counter_value(t, key) ==
    LET got == IF t[key] = Absent THEN PyInt(0) ELSE t[key]
    IN  int_call(IF counter_is_falsy(got) THEN PyInt(0) ELSE got)

\* The sort key that gives every counter the same weight.
score_unweighted(t) ==
    LET views == counter_value(t, "view_count")
        retweets == counter_value(t, "retweet_count")
        quotes == counter_value(t, "quote_count")
    IN  IF views.raised # "none" THEN views
        ELSE IF retweets.raised # "none" THEN retweets
        ELSE IF quotes.raised # "none" THEN quotes
        ELSE [raised |-> "none", v |-> views.v + retweets.v + quotes.v]

\* The sort key: views + 3 * retweets + 5 * quotes, or the exception of the
\* first conversion that fails.
score(t) ==
    LET views == counter_value(t, "view_count")
        retweets == counter_value(t, "retweet_count")
        quotes == counter_value(t, "quote_count")
    IN  IF views.raised # "none" THEN views
        ELSE IF retweets.raised # "none" THEN retweets
        ELSE IF quotes.raised # "none" THEN quotes
        ELSE [raised |-> "none",
              v |-> views.v + 3 * retweets.v + 5 * quotes.v]

\* One step of the stable descending sort: x goes after the records whose
\* key is not smaller.
insert_desc(s, x) ==
    LET k == Cardinality({i \in 1..Len(s) : score(s[i]).v >= score(x).v})
    IN  SubSeq(s, 1, k) \o <<x>> \o SubSeq(s, k + 1, Len(s))

\* sorted(feedback, key=score, reverse=True): stable, so records of equal
\* key keep their order.
RECURSIVE sorted_desc(_)
sorted_desc(s) ==
    IF s = <<>> THEN <<>>
    ELSE insert_desc(sorted_desc(SubSeq(s, 1, Len(s) - 1)), s[Len(s)])

\* feedback[:10]
truncate(s) ==
    IF Len(s) <= FEEDBACK_LIMIT THEN s ELSE SubSeq(s, 1, FEEDBACK_LIMIT)

\* get_feedback(): what it returns for a tweets log and a search answer,
\* whether it searched, and the exception that leaves it ("none").
get_feedback(store, feedback) ==
    IF get_tweets_from_db(store) = <<>>
    THEN [searched |-> FALSE, raised |-> "none", ret |-> PyList(<<>>)]
    ELSE IF feedback = PyNone
    THEN [searched |-> TRUE, raised |-> "none", ret |-> PyNone]
    ELSE IF feedback.items = <<>>
    THEN [searched |-> TRUE, raised |-> "none", ret |-> PyList(<<>>)]
    ELSE IF \E i \in 1..Len(feedback.items) :
                score(feedback.items[i]).raised # "none"
    THEN [searched |-> TRUE, raised |-> "ValueError", ret |-> PyNone]
    ELSE [searched |-> TRUE, raised |-> "none",
          ret |-> PyList(truncate(sorted_desc(feedback.items)))]

\* ActionTweetBehaviour.get_event(): the pre-composed text is posted with
\* store=False; DONE when post_tweet returns a record, ERROR when None.
action_tweet_event(store, pending_tweet, result) ==
    LET r == post_tweet(Pass(store), pending_tweet, FALSE, result)
    IN  [event |-> IF r.latest_tweet # PyNone THEN "done" ELSE "error",
         calls |-> r.calls, store |-> r.store]

\* One ActionTweet round.
ActionTweet ==
    \E len \in TextLengths, result \in ApiResults :
        \E r \in {action_tweet_event(kv, Text(len), result)} :
            /\ tw' = [op |-> "action_tweet", text |-> Text(len),
                      result |-> result, event |-> r.event,
                      calls |-> r.calls, before |-> kv["tweets"],
                      log |-> r.store["tweets"]]
            /\ kv' = r.store
            /\ UNCHANGED <<chain, heart, ld, fb, inst, mirrorVars>>

\* CollectFeedbackBehaviour.async_act: the feedback is collected and, when
\* nothing was raised, sent as the payload of the round.  The result depends
\* on the tweets log and on the search answer only, so one collection per
\* behaviour covers every round.
CollectFeedback ==
    /\ fb.op = "init"
    /\ \E feedback \in SearchAnswers :
        \E r \in {get_feedback(kv, feedback)} :
            /\ fb' = [op |-> "get_feedback", searched |-> r.searched,
                      feedback |-> IF r.searched THEN feedback ELSE PyNone,
                      raised |-> r.raised, ret |-> r.ret,
                      payload_sent |-> r.raised = "none"]
            /\ UNCHANGED <<kv, chain, heart, tw, ld, inst, mirrorVars>>

\* post_tweet(tweet, store=True) on its own: the tweet enters the log when
\* the post succeeds.
PostTweet ==
    /\ Len(get_tweets_from_db(kv)) < MaxPosts
    /\ \E len \in TextLengths, result \in ApiResults :
           kv' = post_tweet(Pass(kv), Text(len), TRUE, result).store
    /\ UNCHANGED <<chain, heart, tw, ld, fb, inst, mirrorVars>>

-----------------------------------------------------------------------------
(* Process instances sharing the ledger store: the read-modify-write of     *)
(* store_heart (chain.py:118-134) and of the engagement round               *)
(* (twitter.py:295-342), one step per store access                          *)

Instances == 1..MaxInstances

Idle == [pc |-> "idle"]

\* What an instance appends to the list it loaded: the token nonce of
\* store_heart, or the new ids of a DONE engagement round.
Extensions(key) ==
    IF key = "hearted_memes" THEN {<<n>> : n \in Nonces}
    ELSE SeqsUpTo(TweetIds, 1)

\* The write that keeps the new values only.
extended_alone(loaded, extension) == extension

\* hearted_memes.append(token_nonce) /
\* interacted_tweet_ids.extend(new_interacted_tweet_ids)
extended(loaded, extension) == loaded \o extension

\* The instance reads the key and loads the list (a round of the instance
\* begins; its rounds run one at a time).
LedgerRead(p) ==
    /\ inst.procs[p] = Idle
    /\ Len(inst.log)
           + Cardinality({q \in Instances : inst.procs[q] # Idle}) < MaxWrites
    /\ \E key \in {"hearted_memes", "interacted_tweet_ids"},
          read_ok \in BOOLEAN :
        \E extension \in Extensions(key) :
           inst' = [inst EXCEPT !.procs[p] =
                       [pc |-> "loaded", key |-> key, read_ok |-> read_ok,
                        loaded |-> load_list(read_kv(kv, key, read_ok)),
                        extension |-> extension,
                        read_at |-> Len(inst.log)]]
    /\ UNCHANGED <<kv, chain, heart, tw, ld, fb, mirrorVars>>

\* The instance writes the whole list back (its round ends).
LedgerWrite(p) ==
    /\ inst.procs[p] # Idle
    /\ LET me == inst.procs[p]
           value == extended(me.loaded, me.extension)
       IN  /\ kv' = write_kv(kv, me.key, json_dumps(value))
           /\ inst' = [inst EXCEPT
                          !.procs[p] = Idle,
                          !.log = Append(@, [proc |-> p, key |-> me.key,
                                             read_ok |-> me.read_ok,
                                             read_at |-> me.read_at,
                                             extension |-> me.extension,
                                             before |-> kv[me.key].items,
                                             after |-> value])]
    /\ UNCHANGED <<chain, heart, tw, ld, fb, mirrorVars>>

-----------------------------------------------------------------------------
(* chain.py: CheckFundsBehaviour                                            *)

\* A native balance as get_native_balance gives it: None or a number.
Balances == {PyNone} \cup {PyInt(n) : n \in 0..MaxBalance}

\* The answer of get_native_balance(): the balances of the safe and of the
\* agent.
NativeBalances == [safe : Balances, agent : Balances]

\* params.minimum_gas_balance
MinimumGasBalances == 0..MaxBalance

\* `not agent_native_balance`: None and 0 are falsy.
no_balance(balance) == balance = PyNone \/ balance = PyInt(0)

\* The gas test that also refuses a balance equal to the minimum.
below_or_at_minimum(balance, minimum_gas_balance) ==
    balance.v <= minimum_gas_balance

\* `agent_native_balance < self.params.minimum_gas_balance`
below_minimum(balance, minimum_gas_balance) ==
    balance.v < minimum_gas_balance

\* CheckFundsBehaviour.get_event(): the event, and the store it leaves.
check_funds_event(store, native_balances, minimum_gas_balance) ==
    LET agent_native_balance == native_balances.agent
    IN  IF no_balance(agent_native_balance)
        THEN [event |-> "no_funds", store |-> store]
        ELSE IF below_minimum(agent_native_balance, minimum_gas_balance)
        THEN [event |-> "no_funds", store |-> store]
        ELSE [event |-> "done", store |-> store]

\* One CheckFundsRound.
CheckFunds ==
    \E native_balances \in NativeBalances,
       minimum_gas_balance \in MinimumGasBalances :
        \E r \in {check_funds_event(kv, native_balances,
                                    minimum_gas_balance)} :
            /\ chain' = [op |-> "check_funds",
                         native_balances |-> native_balances,
                         minimum_gas_balance |-> minimum_gas_balance,
                         event |-> r.event, before |-> kv,
                         after |-> r.store]
            /\ kv' = r.store
            /\ UNCHANGED <<heart, tw, ld, fb, inst, mirrorVars>>

-----------------------------------------------------------------------------
(* Specifications                                                          *)

Init ==
    /\ kv = EmptyStore
    /\ chain = [op |-> "init"]
    /\ heart = [ran |-> FALSE]
    /\ conn = [state |-> "disconnected", queue_set |-> FALSE, queue |-> <<>>,
               session |-> FALSE, pc |-> "idle", last |-> "other"]
    /\ tasks = NoTasks
    /\ task_to_request = <<>>
    /\ received = <<>>
    /\ cb_raised = <<>>
    /\ tw = [op |-> "init"]
    /\ ld = [op |-> "init"]
    /\ fb = [op |-> "init"]
    /\ inst = [procs |-> [p \in Instances |-> Idle], log |-> <<>>]

\* The connection, driven by the multiplexer and the event loop.
NextMirror ==
    \/ Connect
    \/ Send
    \/ TaskComplete
    \/ DoneCallback
    \/ DisconnectBegin
    \/ DisconnectEnd
    \/ Receive
SpecMirror == Init /\ [][NextMirror]_vars

\* The chain behaviours of the agent, round after round.
NextChain == ActionPreparation
SpecChain == Init /\ [][NextChain]_vars

\* store_heart on its own, execution after execution.
NextHeart == RunStoreHeart
SpecHeart == Init /\ [][NextHeart]_vars

\* One engagement pass, for every pending map, LLM text and API outcome.
NextInteract == InteractTwitter
SpecInteract == Init /\ [][NextInteract]_vars

\* The dedup filter of the engagement round and the appends of store_heart.
NextDedup ==
    \/ FilterPending
    \/ RunStoreHeart
SpecDedup == Init /\ [][NextDedup]_vars

\* The funds check, round after round.
NextFunds == CheckFunds
SpecFunds == Init /\ [][NextFunds]_vars

\* Process instances sharing the ledger store, step by step.
NextShared ==
    \E p \in Instances :
        \/ LedgerRead(p)
        \/ LedgerWrite(p)
SpecShared == Init /\ [][NextShared]_vars

\* The load of a ledger collection, for every answer of the store.
NextLoad == LoadLedger
SpecLoad == Init /\ [][NextLoad]_vars

\* parse_json_from_llm on its own, text after text.
NextParse == ParseLlm
SpecParse == Init /\ [][NextParse]_vars

\* The ActionTweet rounds, round after round, over the tweets log.
NextTweet ==
    \/ PostTweet
    \/ ActionTweet
SpecTweet == Init /\ [][NextTweet]_vars

\* The feedback collection, round after round, over the tweets log.
NextFeedback ==
    \/ PostTweet
    \/ CollectFeedback
SpecFeedback == Init /\ [][NextFeedback]_vars

\* Successive engagement rounds over the persisted ledger.
NextEngage ==
    \/ EngageTwitter
    \/ EngageSkipped
SpecEngage == Init /\ [][NextEngage]_vars

-----------------------------------------------------------------------------
(* Properties of the chain behaviours (checked under SpecChain)            *)

Items(store, key) == store[key].items
Range(s) == {s[i] : i \in DOMAIN s}

\* get_tx_hash ran on a token action, with no final_tx_hash, and obtained the
\* raw transaction (it went on to the safe hash and the bookkeeping).
BuiltTx(action) ==
    /\ chain.op = "get_tx_hash"
    /\ ~chain.has_final
    /\ chain.token_action # PyNone
    /\ chain.token_action.action = action
    /\ Len(chain.safe_calls) = 1

\* get_tx_hash ran post_action for a token action and the deployment event
\* gave a (non-zero) token nonce.
PostActionRan(action) ==
    /\ chain.op = "get_tx_hash"
    /\ chain.has_final
    /\ chain.token_action.action = action
    /\ chain.token_nonce.has
    /\ chain.token_nonce.n > 0

\* C2: when get_tx_hash has built the transaction of a heart action (no
\* final_tx_hash yet), the persisted hearted_memes holds the action's
\* token_nonce by the time it returns.
C2_HeartStoredOptimistically ==
    BuiltTx("heart") =>
        chain.token_action.token_nonce \in Range(Items(kv, "hearted_memes"))

\* C3: when post_action runs for a summon and the deployment event yields a
\* token nonce, summoned_tokens afterwards is summoned_tokens before with the
\* record {token_name, token_ticker, total_supply, token_nonce} appended.
C3_SummonRecordAppended ==
    PostActionRan("summon") =>
        Items(kv, "summoned_tokens") =
            Append(Items(chain.before, "summoned_tokens"),
                   [token_name |-> chain.token_action.token_name,
                    token_ticker |-> chain.token_action.token_ticker,
                    total_supply |-> chain.token_action.token_supply,
                    token_nonce |-> chain.token_nonce.n])

\* C4: when post_action runs for a summon or a heart and a token nonce is
\* obtained, hearted_memes holds that nonce once post_action has returned.
C4_ConfirmedHeartStored ==
    (PostActionRan("summon") \/ PostActionRan("heart")) =>
        chain.token_nonce.n \in Range(Items(kv, "hearted_memes"))

\* C10: for each of the five actions get_tx_hash calls the contract
\* collaborator once, with callable build_<action>_tx and exactly the keyword
\* arguments of the routing table.
C10_ActionRouting ==
    (chain.op = "get_tx_hash" /\ ~chain.has_final /\ chain.token_action # PyNone) =>
        LET ta == chain.token_action
            kw == chain.calls[1].kwargs
        IN  /\ Len(chain.calls) = 1
            /\ chain.calls[1].callable = <<"build_", ta.action, "_tx">>
            /\ ta.action = "summon" =>
                  /\ DOMAIN kw = {"token_name", "token_ticker", "token_supply"}
                  /\ kw.token_name = ta.token_name
                  /\ kw.token_ticker = ta.token_ticker
                  /\ kw.token_supply = ta.token_supply
            /\ ta.action \in {"heart", "unleash"} =>
                  /\ DOMAIN kw = {"meme_nonce"}
                  /\ kw.meme_nonce = ta.token_nonce
            /\ ta.action \in {"collect", "purge"} =>
                  /\ DOMAIN kw = {"meme_address"}
                  /\ kw.meme_address = ta.token_address

\* Every one of the five actions has been routed.
C10_Witness ==
    /\ chain.op = "get_tx_hash"
    /\ ~chain.has_final
    /\ chain.token_action # PyNone
    /\ chain.token_action.action = "collect"
    /\ Len(chain.calls) = 1
    /\ chain.calls[1].kwargs.meme_address = "0xB"

\* The safe-hash builder was called, and answered by chain.safe.
SafeBuilderRan == chain.op = "get_tx_hash" /\ Len(chain.safe_calls) = 1

GoodSafeAnswer(resp) ==
    resp.performative = "state" /\ resp.has_hash /\ resp.len = TX_HASH_LENGTH

\* C11: _build_safe_tx_hash returns None when the safe collaborator's
\* answer is not of kind STATE, has no tx_hash, or has a tx_hash whose
\* length is not TX_HASH_LENGTH; it returns a hash only for a STATE answer
\* whose tx_hash has length TX_HASH_LENGTH.
C11_SafeHashValidated ==
    SafeBuilderRan =>
        /\ ~GoodSafeAnswer(chain.safe) => chain.ret = PyNone
        /\ GoodSafeAnswer(chain.safe) =>
               /\ chain.ret.ty = "hash"
               /\ chain.ret.safe_tx_hash_len = TX_HASH_LENGTH - 2

\* A STATE answer with a tx_hash two characters too long was rejected.
C11_Witness ==
    /\ SafeBuilderRan
    /\ chain.safe.performative = "state"
    /\ chain.safe.has_hash
    /\ chain.safe.len = TX_HASH_LENGTH + 2
    /\ chain.ret = PyNone

\* The contract collaborator was asked to build the transaction.
BuildRequested ==
    /\ chain.op = "get_tx_hash"
    /\ ~chain.has_final
    /\ chain.token_action # PyNone

\* C12: when the contract collaborator's answer is not RAW_TRANSACTION or
\* carries no data, get_tx_hash returns None, the safe collaborator is not
\* called and the key-value store is left as it was.
C12_BadRawEndsRound ==
    (BuildRequested
        /\ (chain.raw.performative # "raw_transaction" \/ ~chain.raw.has_data))
    => /\ chain.ret = PyNone
       /\ chain.safe_calls = <<>>
       /\ kv = chain.before

\* A heart whose RAW_TRANSACTION answer had no data.
C12_Witness ==
    /\ BuildRequested
    /\ chain.token_action.action = "heart"
    /\ chain.raw.performative = "raw_transaction"
    /\ ~chain.raw.has_data
    /\ chain.ret = PyNone

\* C13: the safe-hash builder gets value = int(amount) for summon and
\* heart and 0 for unleash, collect and purge, the meme factory address as
\* to_address, and the data of the contract collaborator's answer.
C13_SafeCallArguments ==
    SafeBuilderRan =>
        LET ta == chain.token_action
            call == chain.safe_calls[1]
        IN  /\ ta.action \in {"summon", "heart"} => call.value = ta.amount.v
            /\ ta.action \in {"unleash", "collect", "purge"} => call.value = 0
            /\ call.to_address = "meme_factory"
            /\ call.data = chain.raw.data

\* A heart whose amount is the string "2" was passed on as the int 2.
C13_Witness ==
    /\ SafeBuilderRan
    /\ chain.token_action.action = "heart"
    /\ chain.token_action.amount = [ty |-> "str", v |-> 2]
    /\ chain.safe_calls[1].value = 2

-----------------------------------------------------------------------------
(* Properties of store_heart (checked under SpecHeart)                     *)

\* C5: after every completed store_heart(n), also one whose read reported a
\* failure or an empty value, every nonce that was persisted before the call
\* is still persisted, and so is n.
C5_HeartedNeverRemoved ==
    heart.ran =>
        /\ Range(heart.before) \subseteq Range(Items(kv, "hearted_memes"))
        /\ heart.token_nonce \in Range(Items(kv, "hearted_memes"))

-----------------------------------------------------------------------------
(* Properties of MirrorDBConnection (checked under SpecMirror)             *)

\* The step is the done-callback of task t.
IsCallbackOf(t) ==
    /\ t \in DOMAIN task_to_request
    /\ t \notin DOMAIN task_to_request'

\* C8: a request sent while the connection is connected is answered, when
\* its dispatch ends, by one RESPONSE envelope put on the queue for the
\* sender of the request; when the dispatch raised (decoding the payload,
\* resolving the method, calling the backend) the response carries error=true.
C8_DispatchErrorsAnswered ==
    [][\A t \in DOMAIN task_to_request :
          (/\ IsCallbackOf(t)
           /\ tasks[t].sent_connected
           /\ conn.state = "connected"
           /\ tasks[t].result.kind # "cancelled")
          => /\ Len(conn'.queue) = Len(conn.queue) + 1
             /\ LET e == conn'.queue[Len(conn'.queue)]
                IN  /\ e.to = tasks[t].request.sender
                    /\ e.message.kind = "message"
                    /\ e.message.performative = "response"
                    /\ tasks[t].request.kind \in {"bad_json", "no_method"}
                          => e.message.error]_vars

\* C9: disconnect on a connected connection requests the cancellation of
\* every task of task_to_request that has not finished and clears the
\* response queue; when it ends the state is disconnected and the queue and
\* the session are None; on a disconnected connection it changes nothing.
C9_DisconnectCancelsAll ==
    [][/\ (conn.state = "connected" /\ conn'.state # "connected")
          => /\ \A t \in DOMAIN task_to_request :
                    tasks'[t].status \in {"cancel_requested", "done"}
             /\ ~conn'.queue_set
       /\ (conn.pc = "closing" /\ conn'.pc = "idle")
          => /\ conn'.state = "disconnected"
             /\ ~conn'.queue_set
             /\ ~conn'.session
       /\ conn'.state = "disconnected" => (~conn'.queue_set /\ ~conn'.session)
       /\ conn'.last = "disconnect_noop"
          => /\ conn.state = "disconnected"
             /\ conn' = [conn EXCEPT !.last = "disconnect_noop"]
             /\ UNCHANGED <<tasks, task_to_request, received, cb_raised>>]_vars

\* A disconnect has run to its end and a task it cancelled is still in
\* task_to_request.
C9_Witness ==
    /\ conn.state = "disconnected"
    /\ conn.pc = "idle"
    /\ \E t \in DOMAIN task_to_request : tasks[t].status = "cancel_requested"
    /\ \E t \in DOMAIN cb_raised : cb_raised[t] = "CancelledError"

-----------------------------------------------------------------------------
(* Properties of the engagement rounds (checked under SpecEngage)          *)

\* The like / follow / retweet / reply / quote calls of a call sequence.
TargetedCalls(calls) ==
    {calls[i] : i \in {j \in DOMAIN calls : calls[j].op \in TargetedActions}}

\* C1: a round never issues like, follow, retweet, reply or quote on a
\* tweet whose id is in the interacted_tweet_ids value persisted before the
\* round (written by an earlier round that ended DONE), whether the ids
\* are ints or numeric strings.
C1_NoRepeatedEngagement ==
    tw.op = "get_event" =>
        \A c \in TargetedCalls(tw.calls) :
            \A j \in DOMAIN tw.before.items :
                tw.before.items[j].v # c.id.v

-----------------------------------------------------------------------------
(* Properties of one engagement pass (checked under SpecInteract)          *)

IdlePass == tw.op = "interact_twitter" /\ tw.pending = {}

\* The number of tweet decisions of a decoded response.
TweetDecisions(json_response) ==
    Cardinality({i \in DOMAIN json_response.items :
                    json_response.items[i].action = PyStr("tweet")})

C7_MarkedArrayIsDecisionList ==
    \A id \in TweetIds :
        LET like == [tweet_id |-> id, action |-> PyStr("like"),
                     text |-> PyNone]
        IN  ( /\ tw.op = "interact_twitter"
              /\ tw.llm_response = LlmText(marked_array(<<like>>))
              /\ py_str(id) \in tw.pending
              /\ tw.results[1] = "ok" )
            => /\ tw.calls = <<Call("like", id)>>
               /\ tw.event = "done"
               /\ tw.new_ids = <<id>>

\* The LLM gave no text, or no pattern yields a capture that decodes.
Undecodable(llm_response) ==
    \/ llm_response = PyNone
    \/ parse_json_from_llm(llm_response.toks).kind = "none"

\* C14: interact_twitter returns (ERROR, []) exactly when the LLM gives no
\* text or no pattern yields decodable JSON; in every other case, an empty
\* decision list and decisions that are all skipped included, it returns
\* DONE.
C14_ErrorExactlyOnDecodeFailure ==
    tw.op = "interact_twitter" =>
        /\ Undecodable(tw.llm_response) =>
               tw.event = "error" /\ tw.new_ids = <<>>
        /\ ~Undecodable(tw.llm_response) => tw.event = "done"

\* The decision list of the pass: the decoded list, or nothing when the
\* response is absent or does not decode to a list.
PassDecisions ==
    IF tw.llm_response = PyNone THEN <<>>
    ELSE LET json_response == parse_json_from_llm(tw.llm_response.toks)
         IN  IF json_response.kind = "list" THEN json_response.items
             ELSE <<>>

\* C16: every like, follow, retweet, reply or quote of a pass is for a
\* tweet id whose string is a key of the pending-tweets map; a call made
\* without such a key is a post (the tweet action); decisions with action
\* none make no call.
C16_OnlyPendingTargeted ==
    tw.op = "interact_twitter" =>
        /\ \A c \in TargetedCalls(tw.calls) : py_str(c.id) \in tw.pending
        /\ \A i \in DOMAIN tw.calls :
               py_str(tw.calls[i].id) \notin tw.pending
                   => tw.calls[i].op = "post"
        /\ Len(tw.calls) <=
               Cardinality({i \in DOMAIN PassDecisions :
                               PassDecisions[i].action # PyStr("none")})

\* A pass that skipped a like for an id that is not pending and went on to
\* post the tweet decision that followed it.
C16_Witness ==
    /\ tw.op = "interact_twitter"
    /\ tw.event = "done"
    /\ Len(PassDecisions) = 2
    /\ PassDecisions[1].action = PyStr("like")
    /\ py_str(PassDecisions[1].tweet_id) \notin tw.pending
    /\ PassDecisions[2].action = PyStr("tweet")
    /\ tw.calls = <<Call("post", PyNone)>>

\* Decision i of the pass leads to a like, follow, retweet, reply or quote
\* call: its id is pending and, for reply and quote, its text is valid.
LeadsToCall(i) ==
    LET d == PassDecisions[i]
    IN  /\ d.action \in {PyStr(a) : a \in TargetedActions}
        /\ py_str(d.tweet_id) \in tw.pending
        /\ d.action \in {PyStr("reply"), PyStr("quote")}
               => is_tweet_valid(d.text)

\* C17: when the social collaborator answers a like, retweet, follow,
\* reply or quote call of the loop with a falsy result or None, the pass
\* still returns DONE without an exception, the id of that decision is not
\* collected, and the decisions after it are still processed.
C17_FailedCallIsSkipped ==
    tw.op = "interact_twitter" =>
        \A i \in DOMAIN PassDecisions :
            (LeadsToCall(i) /\ tw.results[i] \in {"fail", "none"}) =>
                /\ tw.event = "done"
                /\ tw.raised = "none"
                /\ Len(PassDecisions) = 1 => tw.new_ids = <<>>
                /\ (i < Len(PassDecisions)
                        /\ PassDecisions[i + 1].action = PyStr("tweet"))
                    => \E j \in DOMAIN tw.calls : tw.calls[j].op = "post"

-----------------------------------------------------------------------------
(* Properties of the ledger of the engagement rounds (under SpecEngage)    *)

\* The list a round loaded from the value persisted before it.
LoadedLedger ==
    IF tw.read_ok /\ tw.before.present THEN tw.before.items ELSE <<>>

\* C15 as stated: an ERROR round makes no social call and leaves the
\* persisted interacted_tweet_ids as it was; every DONE round writes the
\* list it read followed by the new ids; no other outcome writes the key.
C15_DoneRoundWrites ==
    tw.op = "get_event" =>
        /\ tw.event = "error" => tw.calls = <<>>
        /\ tw.event = "done" =>
               kv["interacted_tweet_ids"]
                   = json_dumps(LoadedLedger \o tw.new_ids)
        /\ tw.event # "done" => kv["interacted_tweet_ids"] = tw.before

\* C15: an ERROR round makes no social call and leaves the persisted
\* interacted_tweet_ids as it was; a DONE round that was not skipped by
\* skip_engagement writes the list it loaded (empty after a failed read)
\* followed by the new ids; a skipped round ends DONE without reading or
\* writing the key, and a round that ends with an exception does not write
\* it either.
C15_EngagedDoneRoundWrites ==
    tw.op = "get_event" =>
        /\ tw.event = "error" => tw.calls = <<>>
        /\ (tw.event = "done" /\ ~tw.skipped) =>
               kv["interacted_tweet_ids"]
                   = json_dumps(LoadedLedger \o tw.new_ids)
        /\ (tw.event # "done" \/ tw.skipped) =>
               kv["interacted_tweet_ids"] = tw.before

\* A DONE round that read a non-empty list and appended a new id to it.
C15_Witness ==
    /\ tw.op = "get_event"
    /\ tw.event = "done"
    /\ ~tw.skipped
    /\ tw.read_ok
    /\ tw.before.present
    /\ tw.before.items # <<>>
    /\ tw.new_ids # <<>>
    /\ kv["interacted_tweet_ids"].items = tw.before.items \o tw.new_ids

-----------------------------------------------------------------------------
(* Properties of the load of a ledger collection (under SpecLoad)          *)

\* C18: loading hearted_memes or interacted_tweet_ids gives the empty
\* list, without raising, when the read fails (None), when the stored value
\* is missing or empty, and when the stored string is not valid JSON.
C18_LoadDefaultsToEmpty ==
    ( /\ ld.op = "load"
      /\ \/ ~ld.db_data.ok
         \/ ld.db_data.value.kind \in {"missing", "empty", "garbled"} )
    => ld.raised = "none" /\ ld.list = <<>>

-----------------------------------------------------------------------------
(* Properties of the feedback ranking (under SpecFeedback)                  *)

\* The counter as the ranking counts it: 0 when absent or null.
Count(c) == IF c \in {Absent, PyNone} THEN 0 ELSE c.v

\* views + 3 * retweets + 5 * quotes
RankScore(t) ==
    Count(t.view_count) + 3 * Count(t.retweet_count)
        + 5 * Count(t.quote_count)

\* A counter that is absent, null, a number or a numeric string.
Countable(c) == c \in {Absent, PyNone} \/ "v" \in DOMAIN c

CountableRecord(t) ==
    /\ Countable(t.view_count)
    /\ Countable(t.retweet_count)
    /\ Countable(t.quote_count)

\* How many times a record occurs in a list.
Occurrences(s, t) == Cardinality({i \in 1..Len(s) : s[i] = t})

Min(a, b) == IF a <= b THEN a ELSE b

\* The output is the top min(10, n) of the input by the score given.
RankedTop(input, output, Score(_)) ==
    /\ Len(output) = Min(FEEDBACK_LIMIT, Len(input))
    /\ \A i \in 1..(Len(output) - 1) :
           Score(output[i]) >= Score(output[i + 1])
    /\ \A i \in 1..Len(output) :
           Occurrences(output, output[i]) <= Occurrences(input, output[i])
    /\ \A i \in 1..Len(input) :
           Occurrences(output, input[i]) < Occurrences(input, input[i]) =>
               \A j \in 1..Len(output) :
                   Score(input[i]) <= Score(output[j])

\* The search was made and answered a list.
SearchAnswered ==
    /\ fb.op = "get_feedback"
    /\ fb.searched
    /\ fb.feedback # PyNone

\* C19: for a non-empty search answer whose counters are absent, null or
\* numeric, get_feedback returns min(10, n) records of the answer, in
\* non-increasing order of views + 3 * retweets + 5 * quotes (absent and
\* null counting as 0), every record left out scoring no more than every
\* record kept; an empty answer gives the empty list.
C19_TopTenByScore ==
    ( /\ SearchAnswered
      /\ \A i \in 1..Len(fb.feedback.items) :
             CountableRecord(fb.feedback.items[i]) )
    => /\ fb.raised = "none"
       /\ fb.ret # PyNone
       /\ fb.feedback.items = <<>> => fb.ret.items = <<>>
       /\ RankedTop(fb.feedback.items, fb.ret.items, RankScore)

\* An answer longer than the limit, holding records with absent counters,
\* that was re-ordered and cut to the limit, leaving out a record that
\* scores less than a record kept.
C19_Witness ==
    /\ SearchAnswered
    /\ Len(fb.feedback.items) > FEEDBACK_LIMIT
    /\ fb.raised = "none"
    /\ Len(fb.ret.items) = FEEDBACK_LIMIT
    /\ fb.ret.items # SubSeq(fb.feedback.items, 1, FEEDBACK_LIMIT)
    /\ RankScore(fb.feedback.items[1]) < RankScore(fb.ret.items[1])
    /\ RankScore(fb.ret.items[FEEDBACK_LIMIT]) > 1

\* The counter as C20 counts it: 0 as well when it is not a number.
LenientCount(c) == IF "v" \in DOMAIN c THEN c.v ELSE 0

LenientScore(t) ==
    LenientCount(t.view_count) + 3 * LenientCount(t.retweet_count)
        + 5 * LenientCount(t.quote_count)

NonNumeric(c) == c # Absent /\ c # PyNone /\ "v" \notin DOMAIN c

\* C20: when a record of the answer holds a counter that is present but not
\* a number, get_feedback does not fail: it returns the list ranked with
\* that counter counted as 0.
C20_NonNumericCounterScoredZero ==
    ( /\ SearchAnswered
      /\ \E i \in 1..Len(fb.feedback.items) :
             \/ NonNumeric(fb.feedback.items[i].view_count)
             \/ NonNumeric(fb.feedback.items[i].retweet_count)
             \/ NonNumeric(fb.feedback.items[i].quote_count) )
    => /\ fb.raised = "none"
       /\ fb.ret # PyNone
       /\ RankedTop(fb.feedback.items, fb.ret.items, LenientScore)


-----------------------------------------------------------------------------
(* Properties of parse_json_from_llm (under SpecParse)                      *)

\* The k-th pattern matches the text and its capture decodes.
Decodes(k, s) ==
    /\ re_search(JSON_RESPONSE_REGEXES[k], s).matched
    /\ json_loads(re_search(JSON_RESPONSE_REGEXES[k], s).capture).ok

Decoded(k, s) ==
    LET loaded == json_loads(re_search(JSON_RESPONSE_REGEXES[k], s).capture)
    IN  [kind |-> loaded.kind, items |-> loaded.items]

JsonObject(d) == [kind |-> "dict", items |-> <<d>>]

\* C21: parse_json_from_llm returns the decoded capture of the first
\* pattern, in the listed order, whose capture decodes, and None when no
\* pattern matches or no capture decodes; it returns the object itself for
\* json{...}, json({...}) and a fenced block of json, newline, {...},
\* newline, and None for prose.
C21_FirstDecodingPattern ==
    tw.op = "parse" =>
        /\ \A d \in ParseObjects :
               tw.response \in {marked_object(d), wrapped_object(d),
                                fenced_object(d)}
                   => tw.json = JsonObject(d)
        /\ tw.json.kind = "none"
               <=> \A k \in DOMAIN JSON_RESPONSE_REGEXES :
                       ~Decodes(k, tw.response)
        /\ \A k \in DOMAIN JSON_RESPONSE_REGEXES :
               ( /\ Decodes(k, tw.response)
                 /\ \A j \in 1..(k - 1) : ~Decodes(j, tw.response) )
               => tw.json = Decoded(k, tw.response)
        /\ (\A i \in DOMAIN tw.response : tw.response[i].tok = "prose")
               => tw.json.kind = "none"

\* A fenced array whose capture by the first pattern does not decode, and
\* which the third pattern recovers.
C21_Witness ==
    /\ tw.op = "parse"
    /\ re_search(JSON_RESPONSE_REGEXES[1], tw.response).matched
    /\ ~Decodes(1, tw.response)
    /\ Decodes(3, tw.response)
    /\ tw.json.kind = "list"
    /\ Len(tw.json.items) = 2


-----------------------------------------------------------------------------
(* Properties of the tweets log                                             *)

PostCalls(calls) == {i \in DOMAIN calls : calls[i].op = "post"}

\* C22: after an engagement pass, the tweets log holds one record for every
\* tweet decision the pass executed (every post it made), whatever the
\* collaborator answered.
C22_EveryTweetDecisionLogged ==
    tw.op = "interact_twitter" =>
        Len(kv["tweets"].items) = Cardinality(PostCalls(tw.calls))

\* C23: an ActionTweet round posts its text in exactly one call, leaves the
\* tweets log as it was, and ends DONE when the collaborator returned a
\* post id and ERROR when it returned an empty or falsy result.
C23_ActionTweetLeavesLog ==
    tw.op = "action_tweet" =>
        /\ tw.calls = <<Call("post", PyNone)>>
        /\ tw.log = tw.before
        /\ tw.event = IF tw.result = "ok" THEN "done" ELSE "error"

\* A successful ActionTweet round over a log that already holds a record.
C23_Witness ==
    /\ tw.op = "action_tweet"
    /\ tw.result = "ok"
    /\ tw.event = "done"
    /\ tw.before.present
    /\ tw.before.items # <<>>
    /\ tw.log = tw.before

-----------------------------------------------------------------------------
(* Properties of the finished action (under SpecChain)                      *)

\* C24: with a final_tx_hash, get_tx_hash runs post_action and returns the
\* empty string without building a transaction; when the deployment event
\* gives no token nonce the store is left as it was, and a nonce that is
\* present, 0 included, does not stop post_action as an absent one does.
C24_FinishedActionBookkeeping ==
    (chain.op = "get_tx_hash" /\ chain.has_final) =>
        /\ chain.ret = PyStr("")
        /\ chain.calls = <<>>
        /\ chain.safe_calls = <<>>
        /\ chain.nonce_calls = 1
        /\ ~chain.token_nonce.has => (chain.stopped /\ kv = chain.before)
        /\ chain.token_nonce.has => ~chain.stopped

-----------------------------------------------------------------------------
(* Properties of the text length test (under SpecInteract)                  *)

\* The decisions of the pass that reply to or quote a pending tweet.
RespondDecisions(a, id) ==
    {i \in DOMAIN PassDecisions :
        /\ PassDecisions[i].action = PyStr(a)
        /\ PassDecisions[i].tweet_id = id
        /\ py_str(id) \in tw.pending}

\* A decision of the pass that makes a call when the loop reaches it.
Executed(i) ==
    LET d == PassDecisions[i]
    IN  \/ d.action = PyStr("tweet")
        \/ /\ d.action \in {PyStr("like"), PyStr("follow"), PyStr("retweet")}
           /\ py_str(d.tweet_id) \in tw.pending
        \/ /\ d.action \in {PyStr("reply"), PyStr("quote")}
           /\ py_str(d.tweet_id) \in tw.pending
           /\ d.text.len <= MAX_TWEET_CHARS

\* C25: in a pass that returns DONE, the reply and quote calls made for a
\* pending tweet are exactly the reply and quote decisions on it whose text
\* has a weighted length of at most 280 (one call each, none for a longer
\* text), and every other decision of the list is still processed.
C25_RespondedIffTextFits ==
    (tw.op = "interact_twitter" /\ tw.event = "done") =>
        /\ \A a \in {"reply", "quote"}, id \in TweetIds :
               Cardinality({j \in DOMAIN tw.calls : tw.calls[j] = Call(a, id)})
                   = Cardinality({i \in RespondDecisions(a, id) :
                                    PassDecisions[i].text.len
                                        <= MAX_TWEET_CHARS})
        /\ Len(tw.calls)
               = Cardinality({i \in DOMAIN PassDecisions : Executed(i)})

\* A pass that skipped a reply of weighted length 281 and went on to send
\* a quote of weighted length exactly 280.
C25_Witness ==
    /\ tw.op = "interact_twitter"
    /\ tw.event = "done"
    /\ Len(PassDecisions) = 2
    /\ PassDecisions[1].action = PyStr("reply")
    /\ py_str(PassDecisions[1].tweet_id) \in tw.pending
    /\ PassDecisions[1].text.len = MAX_TWEET_CHARS + 1
    /\ PassDecisions[2].action = PyStr("quote")
    /\ PassDecisions[2].text.len = MAX_TWEET_CHARS
    /\ tw.calls = <<Call("quote", PassDecisions[2].tweet_id)>>

-----------------------------------------------------------------------------
(* Properties of the dedup decision (under SpecDedup)                       *)

\* C26: the tweets the engagement round keeps as pending are the same for
\* a ledger with x appended once and with x appended twice, and store_heart
\* appends a nonce that the collection already holds, without failing.
C26_DedupIsMembership ==
    /\ ld.op = "filter" => ld.once = ld.twice
    /\ (heart.ran /\ heart.read_ok
            /\ heart.token_nonce \in Range(heart.before))
        => Items(kv, "hearted_memes")
               = Append(heart.before, heart.token_nonce)

\* Appending x made the round skip the tweet of the feed, once as twice,
\* and store_heart appended a nonce that was already stored.
C26_Witness ==
    /\ ld.op = "filter"
    /\ ld.before # {}
    /\ ld.once = {}
    /\ ld.twice = {}
    /\ heart.ran
    /\ heart.read_ok
    /\ heart.token_nonce \in Range(heart.before)

-----------------------------------------------------------------------------
(* Properties of the new-interactions accumulator (under SpecInteract)      *)

\* Decision i made a like, follow, retweet, reply or quote call on a
\* pending tweet and the collaborator reported success.
Succeeded(i) ==
    /\ Executed(i)
    /\ PassDecisions[i].action # PyStr("tweet")
    /\ tw.results[i] = "ok"

\* C27: after a pass that returns DONE, the ids of new_interacted_ids are
\* exactly the ids of the decisions whose like, follow, retweet, reply or
\* quote on a pending tweet reported success, one entry for each; a call
\* that reported failure adds nothing.
C27_NewIdsAreSuccesses ==
    (tw.op = "interact_twitter" /\ tw.event = "done") =>
        /\ Range(tw.new_ids)
               = {PassDecisions[i].tweet_id :
                      i \in {j \in DOMAIN PassDecisions : Succeeded(j)}}
        /\ Len(tw.new_ids)
               = Cardinality({i \in DOMAIN PassDecisions : Succeeded(i)})
        /\ \A i \in DOMAIN tw.new_ids : py_str(tw.new_ids[i]) \in tw.pending

\* A pass whose like reported failure and whose follow reported success:
\* only the follow put its id in the list.
C27_Witness ==
    /\ tw.op = "interact_twitter"
    /\ tw.event = "done"
    /\ Len(PassDecisions) = 2
    /\ PassDecisions[1].action = PyStr("like")
    /\ tw.results[1] = "fail"
    /\ PassDecisions[2].action = PyStr("follow")
    /\ tw.results[2] = "ok"
    /\ Len(tw.calls) = 2
    /\ tw.new_ids = <<PassDecisions[2].tweet_id>>

-----------------------------------------------------------------------------
(* Properties of the shared ledger store (under SpecShared)                 *)

\* Write i replaced the stored list by something else than that list
\* followed by what the writer appended: values stored before it are lost.
Overwrote(i) ==
    inst.log[i].after # inst.log[i].before \o inst.log[i].extension

\* Another instance wrote the same key between the read and the write of
\* write i.
RacedWith(i) ==
    \E j \in (inst.log[i].read_at + 1)..(i - 1) :
        /\ inst.log[j].proc # inst.log[i].proc
        /\ inst.log[j].key = inst.log[i].key

\* C28: a read-modify-write whose read succeeded loses stored values only
\* when another instance wrote the same key between its read and its
\* write; the writes of one instance alone, whose rounds run one at a
\* time, lose nothing.  (The interleaving that loses an id is C28_Witness.)
C28_LossOnlyByRace ==
    \A i \in DOMAIN inst.log :
        (Overwrote(i) /\ inst.log[i].read_ok) => RacedWith(i)

\* Two instances appended to hearted_memes; the second read before the
\* first wrote and wrote after it: the nonce of the first is lost.
C28_Witness ==
    /\ Len(inst.log) = 2
    /\ inst.log[1].key = "hearted_memes"
    /\ inst.log[2].key = "hearted_memes"
    /\ inst.log[1].proc # inst.log[2].proc
    /\ inst.log[1].read_ok
    /\ inst.log[2].read_ok
    /\ inst.log[2].read_at = 0
    /\ Overwrote(2)
    /\ inst.log[1].extension[1] \notin Range(Items(kv, "hearted_memes"))

-----------------------------------------------------------------------------
(* Properties of the done-callback (under SpecMirror)                       *)

\* The tasks that were sent and whose done-callback has not run.
Unretired(ts) == {t \in DOMAIN ts : ts[t] # Retired}

\* C29: task_to_request holds exactly the tasks sent and not yet retired,
\* and the done-callback of a task, on a connected connection, removes its
\* entry and queues one envelope addressed to the sender of the task's
\* request and sent by that request's recipient, whatever else is in flight.
C29_CompletionQueuesResponse ==
    [][/\ DOMAIN task_to_request' = Unretired(tasks')
       /\ \A t \in DOMAIN task_to_request :
              (/\ IsCallbackOf(t)
               /\ tasks[t].sent_connected
               /\ conn.state = "connected"
               /\ tasks[t].result.kind # "cancelled")
              => /\ Len(conn'.queue) = Len(conn.queue) + 1
                 /\ conn'.queue[Len(conn'.queue)].to
                        = task_to_request[t].sender
                 /\ conn'.queue[Len(conn'.queue)].sender
                        = task_to_request[t].to]_vars

\* C30: the done-callback never raises on a task that disconnect cancelled
\* nor on a task that ends after disconnect has cleared the queue.
C30_DoneCallbackNeverRaises ==
    \A t \in DOMAIN cb_raised :
        cb_raised[t] \notin {"CancelledError", "ValueError"}

-----------------------------------------------------------------------------
(* Properties of the dispatch (under SpecMirror)                            *)

\* The tasks whose dispatch has returned a message.
Answered ==
    {t \in DOMAIN tasks :
        tasks[t].status = "done" /\ tasks[t].result.kind = "message"}

\* C31: a message that is not a REQUEST and a request naming a method the
\* connection does not have are answered with error=true and no backend
\* method is called; a backend method that was called and returned is
\* answered with error=false and its result as payload.
C31_DispatchReplies ==
    /\ \A t \in DOMAIN tasks :
           ( /\ tasks[t].status = "done"
             /\ tasks[t].result.kind # "cancelled"
             /\ tasks[t].request.kind \in {"not_request", "unknown"} )
           => /\ t \in Answered
              /\ tasks[t].result.performative = "response"
              /\ tasks[t].result.error
              /\ tasks[t].result.backend = "not_called"
    /\ \A t \in Answered :
           /\ tasks[t].result.backend # "not_called"
                  => tasks[t].request.kind = "call"
           /\ tasks[t].result.backend = "returned"
                  => /\ ~tasks[t].result.error
                     /\ tasks[t].result.payload = "response"
           /\ ~tasks[t].result.error
                  => tasks[t].result.backend = "returned"

\* A request for an unknown method answered with an error and a request
\* whose backend method returned, both dispatched.
C31_Witness ==
    \E t, u \in Answered :
        /\ tasks[t].request.kind = "unknown"
        /\ tasks[t].result.error
        /\ tasks[u].request.kind = "call"
        /\ tasks[u].result.backend = "returned"
        /\ ~tasks[u].result.error

-----------------------------------------------------------------------------
(* Properties of the funds check (under SpecFunds)                          *)

FundsChecked == chain.op = "check_funds"

AgentBalance == chain.native_balances.agent

\* C32 as stated: NO_FUNDS when the agent's balance is absent, zero or
\* below minimum_gas_balance, DONE when it is at least minimum_gas_balance;
\* no other event, and the store is left as it was.
C32_FundsEvent ==
    FundsChecked =>
        /\ ( \/ AgentBalance = PyNone
             \/ AgentBalance.v = 0
             \/ AgentBalance.v < chain.minimum_gas_balance )
           => chain.event = "no_funds"
        /\ ( /\ AgentBalance # PyNone
             /\ AgentBalance.v >= chain.minimum_gas_balance )
           => chain.event = "done"
        /\ chain.event \in {"no_funds", "done"}
        /\ chain.after = chain.before

\* C32: NO_FUNDS when the agent's balance is absent, zero or below
\* minimum_gas_balance, DONE when it is not zero and at least
\* minimum_gas_balance (equal to it included); no other event, and the
\* store is left as it was.
C32_FundsEventNonZero ==
    FundsChecked =>
        /\ ( \/ AgentBalance = PyNone
             \/ AgentBalance.v = 0
             \/ AgentBalance.v < chain.minimum_gas_balance )
           => chain.event = "no_funds"
        /\ ( /\ AgentBalance # PyNone
             /\ AgentBalance.v # 0
             /\ AgentBalance.v >= chain.minimum_gas_balance )
           => chain.event = "done"
        /\ chain.event \in {"no_funds", "done"}
        /\ chain.after = chain.before

\* A balance exactly equal to a positive minimum gave DONE.
C32_Witness ==
    /\ FundsChecked
    /\ AgentBalance # PyNone
    /\ AgentBalance.v = chain.minimum_gas_balance
    /\ chain.minimum_gas_balance > 0
    /\ chain.event = "done"

====
